---- MODULE Spec2Model ----
(***************************************************************************)
(* TumorX: the Streamlit script app.py (one script run per user            *)
(* interaction of a session) together with utils/classifier.py,            *)
(* utils/segmentation.py and utils/report_generator.py.                    *)
(*                                                                         *)
(* Numbers are fixed point: Scale stands for 1.0, so a probability is an   *)
(* integer in 0..Scale and a confidence (percent) an integer in            *)
(* 0..Percent*Scale.                                                       *)
(***************************************************************************)
EXTENDS Integers, Sequences, FiniteSets, TLC

VARIABLES fs, modelFile, cache, loads, returned, sess, api

vars == <<fs, modelFile, cache, loads, returned, sess, api>>

---------------------------------------------------------------------------
(* Values *)

Scale == 1000 * 100

\* classifier.py:54, "* 100.0"
Percent == 100

NONE == "None"

\* the float None of app.py:12, outside every confidence
NoConf == 0 - 1

Sessions == {"s1", "s2"}

\* picture files a user can upload: what the bytes decode to
Images == {"glioma", "healthy", "gif", "corrupt", "ambiguous"}

\* PIL (keras load_img, reportlab) decodes these; cv2.imread decodes fewer formats
PILReadable == {"glioma", "healthy", "gif", "ambiguous"}

CVReadable == {"glioma", "healthy", "ambiguous"}

FileNames == {"a.png", "b.png"}

UPLOAD_DIR == "uploads"

TEMP_OVERLAY == "temp_overlay.png"

CLASSIFIER_PATH == "models/final_model.keras"

UNET_PATH == "models/best_unetmodel.keras"

ModelPaths == {CLASSIFIER_PATH, UNET_PATH}

Loaders == {"load_classifier", "load_unet"}

join(dir, name) == dir \o "/" \o name

UploadPaths == {join(UPLOAD_DIR, n) : n \in FileNames}

MISSING_PATH == "uploads/missing.png"

Paths == UploadPaths \cup {TEMP_OVERLAY}

\* a file's content: an uploaded picture, a written overlay, or no file
NoFile == [kind |-> "absent", img |-> NONE]

Mri(i) == [kind |-> "mri", img |-> i]

OverlayOf(i) == [kind |-> "overlay", img |-> i]

NoOverlay == [kind |-> "None", img |-> NONE]

FileContents == {NoFile} \cup {Mri(i) : i \in Images} \cup {OverlayOf(i) : i \in CVReadable}

exists(path) == path \in DOMAIN fs /\ fs[path] # NoFile

\* PIL can decode the file at path (it exists and is a picture)
pil_open(path) ==
    /\ exists(path)
    /\ \/ fs[path].kind = "overlay"
       \/ fs[path].kind = "mri" /\ fs[path].img \in PILReadable

\* cv2.imread returns an array (not None)
cv_imread(path) ==
    /\ exists(path)
    /\ \/ fs[path].kind = "overlay"
       \/ fs[path].kind = "mri" /\ fs[path].img \in CVReadable

\* a Python truth test of a string-or-None
truthy(x) == x # NONE /\ x # ""

---------------------------------------------------------------------------
(* Model loader: keras load_model behind st.cache_resource *)

NoHandle == [path |-> NONE, arch |-> NONE, gen |-> 0]

ModelFileStates == {"missing", "ok", "badshape"}

\* load_model(path, compile=False): parses the file; gen numbers the parses
load_model(path, gen) ==
    IF modelFile[path] = "missing"
    THEN [raised |-> TRUE, handle |-> NoHandle]
    ELSE [raised |-> FALSE,
          handle |-> [path |-> path, arch |-> modelFile[path], gen |-> gen]]

\* a cache_resource that forgets to store what it loaded
cache_resource_nostore(loader, path, c, l) ==
    LET r == load_model(path, l[loader][path] + 1)
    IN  IF r.raised
        THEN [raised |-> TRUE, handle |-> NoHandle, cache |-> c, loads |-> l, hit |-> FALSE]
        ELSE [raised |-> FALSE, handle |-> r.handle, cache |-> c,
              loads |-> [l EXCEPT ![loader][path] = @ + 1], hit |-> FALSE]

\* @st.cache_resource: one entry per function and argument; a call that raises stores nothing
cache_resource(loader, path, c, l) ==
    IF c[loader][path] # NoHandle
    THEN [raised |-> FALSE, handle |-> c[loader][path], cache |-> c, loads |-> l,
          hit |-> TRUE]
    ELSE LET r == load_model(path, l[loader][path] + 1)
         IN  IF r.raised
             THEN [raised |-> TRUE, handle |-> NoHandle, cache |-> c, loads |-> l,
                   hit |-> FALSE]
             ELSE [raised |-> FALSE, handle |-> r.handle,
                   cache |-> [c EXCEPT ![loader][path] = r.handle],
                   loads |-> [l EXCEPT ![loader][path] = @ + 1], hit |-> FALSE]

load_classifier(path, c, l) == cache_resource("load_classifier", path, c, l)

load_unet(path, c, l) == cache_resource("load_unet", path, c, l)

---------------------------------------------------------------------------
(* Classifier *)

APP_CLASS_NAMES == <<"Glioma Tumor", "Meningioma Tumor", "No Tumor", "Pituitary Tumor">>

FALLBACK_CLASS_NAMES == <<"glioma_tumor", "meningioma_tumor", "no_tumor", "pituitary_tumor">>

\* load_class_names(classes_path, fallback): npy is the list stored in classes.npy, <<>> when
\* the file does not exist; fallback is <<>> for None
load_class_names(npy, fallback) ==
    IF npy # <<>> THEN npy
    ELSE IF fallback # <<>> THEN fallback ELSE FALLBACK_CLASS_NAMES

PreprocessModes == {"none", "rescale01", "efficientnet"}

\* preprocess="none" in the signature of classify_image
DEFAULT_PREPROCESS == "none"

\* a _preprocess_image without its final else: every mode value is let through
preprocess_image_ok_anymode(mode) == TRUE

\* _preprocess_image: TRUE when the mode is accepted, FALSE when it raises ValueError
preprocess_image_ok(mode) == mode \in PreprocessModes

\* model.predict(x)[0] of the classifier: a softmax vector over the four classes
predict(img) ==
    CASE img = "glioma"  -> <<92500, 5000, 1500, 1000>>
      [] img = "healthy" -> <<4000, 3000, 88000, 5000>>
      [] img = "gif"     -> <<30000, 45678, 14322, 10000>>
      [] img = "ambiguous" -> <<5000, 40000, 15000, 40000>>
      [] OTHER           -> <<25000, 25000, 25000, 25000>>

\* an arg-max that takes the last index of the largest entry
argmax_last(v) ==
    CHOOSE i \in 1..Len(v) :
        /\ \A j \in 1..Len(v) : v[j] <= v[i]
        /\ \A j \in (i + 1)..Len(v) : v[j] < v[i]

\* np.argmax: the first index of the largest entry
argmax(v) ==
    CHOOSE i \in 1..Len(v) :
        /\ \A j \in 1..Len(v) : v[j] <= v[i]
        /\ \A j \in 1..(i - 1) : v[j] < v[i]

Raise(e) == [raised |-> e, label |-> NONE, confidence |-> NoConf, forward |-> 0]

\* a classify_image that returns a result for an unreadable picture
classify_image_noraise(img_path, model, class_names, preprocess) ==
    IF model.arch # "ok" THEN [Raise("ShapeError") EXCEPT !.forward = 1]
    ELSE LET preds == predict(IF pil_open(img_path) THEN fs[img_path].img ELSE "corrupt")
             pred_idx == argmax(preds)
         IN  [raised |-> NONE, label |-> class_names[pred_idx],
              confidence |-> preds[pred_idx] * Percent, forward |-> 1]

\* classify_image(img_path, model, class_names, preprocess)
classify_image(img_path, model, class_names, preprocess) ==
    IF ~pil_open(img_path) THEN Raise("ImageError")
    ELSE IF ~preprocess_image_ok(preprocess) THEN Raise("ValueError")
    ELSE IF model.arch # "ok" THEN [Raise("ShapeError") EXCEPT !.forward = 1]
    ELSE LET preds == predict(fs[img_path].img)
             pred_idx == argmax(preds)
         IN  IF pred_idx > Len(class_names)
             THEN [Raise("IndexError") EXCEPT !.forward = 1]
             ELSE [raised |-> NONE, label |-> class_names[pred_idx],
                   confidence |-> preds[pred_idx] * Percent, forward |-> 1]

---------------------------------------------------------------------------
(* Segmenter *)

\* a segment_image_heatmap without the "if img is None" test: cv2.cvtColor raises on None
segment_image_heatmap_nocheck(model, image_path) ==
    IF ~cv_imread(image_path) \/ model.arch # "ok"
    THEN [status |-> "raise", overlay |-> NoOverlay, forward |-> 1]
    ELSE [status |-> "overlay", overlay |-> OverlayOf(fs[image_path].img), forward |-> 1]

\* segment_image_heatmap(model, image_path): status "none" is the returned None
segment_image_heatmap(model, image_path) ==
    IF ~cv_imread(image_path)
    THEN [status |-> "none", overlay |-> NoOverlay, forward |-> 0]
    ELSE IF model.arch # "ok"
    THEN [status |-> "raise", overlay |-> NoOverlay, forward |-> 1]
    ELSE [status |-> "overlay", overlay |-> OverlayOf(fs[image_path].img), forward |-> 1]

---------------------------------------------------------------------------
(* Report generator *)

\* a TUMOR_INFO whose pituitary record has lost its symptoms
TUMOR_INFO_nosymptoms ==
    ("Glioma Tumor" :> [description |-> 1, types |-> 4, symptoms |-> 6,
                        treatment_options |-> 5, prognosis |-> 1, prevalence |-> 1])
    @@ ("Meningioma Tumor" :> [description |-> 1, types |-> 3, symptoms |-> 7,
                        treatment_options |-> 5, prognosis |-> 1, prevalence |-> 1])
    @@ ("Pituitary Tumor" :> [description |-> 1, types |-> 6, symptoms |-> 0,
                        treatment_options |-> 5, prognosis |-> 1, prevalence |-> 1])
    @@ ("No Tumor" :> [description |-> 1, normal_findings |-> 5,
                        recommendations |-> 4, note |-> 1])

\* TUMOR_INFO: per label, the fields of its record with the number of texts in each
TUMOR_INFO ==
    ("Glioma Tumor" :> [description |-> 1, types |-> 4, symptoms |-> 6,
                        treatment_options |-> 5, prognosis |-> 1, prevalence |-> 1])
    @@ ("Meningioma Tumor" :> [description |-> 1, types |-> 3, symptoms |-> 7,
                        treatment_options |-> 5, prognosis |-> 1, prevalence |-> 1])
    @@ ("Pituitary Tumor" :> [description |-> 1, types |-> 6, symptoms |-> 8,
                        treatment_options |-> 5, prognosis |-> 1, prevalence |-> 1])
    @@ ("No Tumor" :> [description |-> 1, normal_findings |-> 5,
                        recommendations |-> 4, note |-> 1])

\* TUMOR_INFO.items() iterates in insertion order
TUMOR_ORDER == <<"Glioma Tumor", "Meningioma Tumor", "Pituitary Tumor", "No Tumor">>

HIGH_PRIORITY == "HIGH PRIORITY - Requires medical attention"

NORMAL == "NORMAL - No tumor detected"

\* n / d rounded to the nearest integer, ties to even (what "%.2f" does with an exact value)
RoundHalfEven(n, d) ==
    LET q == n \div d
        r == n % d
    IN  IF 2 * r < d THEN q
        ELSE IF 2 * r > d THEN q + 1
        ELSE IF q % 2 = 0 THEN q ELSE q + 1

\* f"{x:.2f}%": the digits before the point and the two digits after it
Format2(x) ==
    LET h == RoundHalfEven(x * 100, Scale)
    IN  [whole |-> h \div 100, frac |-> <<(h % 100) \div 10, h % 10>>]

\* a confidence_percentage that takes the docstring's 0-1 fraction and multiplies by 100
confidence_percentage_times100(confidence) ==
    IF confidence # NoConf /\ confidence # 0 THEN confidence * 100 ELSE 0

\* confidence * 1 if confidence else 0
confidence_percentage(confidence) ==
    IF confidence # NoConf /\ confidence # 0 THEN confidence * 1 ELSE 0

\* a risk line that calls every label outside TUMOR_INFO normal
risk_assessment_known_only(pred_class) ==
    IF pred_class \in DOMAIN TUMOR_INFO /\ pred_class # "No Tumor"
    THEN HIGH_PRIORITY ELSE NORMAL

\* the "Risk Assessment" row
risk_assessment(pred_class) ==
    IF pred_class # "No Tumor" THEN HIGH_PRIORITY ELSE NORMAL

Slot(name, path) == [slot |-> name, path |-> path, content |-> fs[path]]

\* an image_row that takes every given path without asking os.path.exists
image_row_noexists(original_path, overlay_path) ==
    (IF truthy(original_path) THEN <<[slot |-> "original", path |-> original_path,
            content |-> IF exists(original_path) THEN fs[original_path] ELSE NoFile]>>
     ELSE <<>>)
    \o (IF truthy(overlay_path) THEN <<[slot |-> "overlay", path |-> overlay_path,
            content |-> IF exists(overlay_path) THEN fs[overlay_path] ELSE NoFile]>>
        ELSE <<>>)

\* image_row: the original, then the overlay, each when its path is given and exists
image_row(original_path, overlay_path) ==
    (IF truthy(original_path) /\ exists(original_path)
     THEN <<Slot("original", original_path)>> ELSE <<>>)
    \o (IF truthy(overlay_path) /\ exists(overlay_path)
        THEN <<Slot("overlay", overlay_path)>> ELSE <<>>)

FieldsOf(tumor_data, fields) ==
    SelectSeq(fields, LAMBDA f : f \in DOMAIN tumor_data)

\* detail blocks with the two branches of the "No Tumor" test exchanged
detail_blocks_swapped(pred_class) ==
    IF pred_class \notin DOMAIN TUMOR_INFO THEN <<>>
    ELSE <<"description">> \o
         (IF pred_class = "No Tumor"
          THEN FieldsOf(TUMOR_INFO[pred_class],
                        <<"types", "symptoms", "treatment_options", "prognosis",
                          "prevalence">>)
          ELSE FieldsOf(TUMOR_INFO[pred_class], <<"normal_findings", "recommendations">>))

\* detail blocks that fall back to a general description for a label without a record
detail_blocks_default(pred_class) ==
    IF pred_class \notin DOMAIN TUMOR_INFO THEN <<"description">>
    ELSE <<"description">> \o
         (IF pred_class # "No Tumor"
          THEN FieldsOf(TUMOR_INFO[pred_class],
                        <<"types", "symptoms", "treatment_options", "prognosis",
                          "prevalence">>)
          ELSE FieldsOf(TUMOR_INFO[pred_class], <<"normal_findings", "recommendations">>))

\* the blocks of the detailed-information section, in order
detail_blocks(pred_class) ==
    IF pred_class \notin DOMAIN TUMOR_INFO THEN <<>>
    ELSE LET tumor_data == TUMOR_INFO[pred_class]
             has(f) == f \in DOMAIN tumor_data
             opt(f) == IF has(f) THEN <<f>> ELSE <<>>
         IN  <<"description">> \o
             (IF pred_class # "No Tumor"
              THEN opt("types") \o opt("symptoms") \o opt("treatment_options")
                   \o opt("prognosis") \o opt("prevalence")
              ELSE opt("normal_findings") \o opt("recommendations"))

\* one entry of the reference guide: the name, the description and, when the record has
\* one, the prevalence
GuideEntry(tumor_name) ==
    [name |-> tumor_name,
     texts |-> <<"description">> \o
               (IF "prevalence" \in DOMAIN TUMOR_INFO[tumor_name]
                THEN <<"prevalence">> ELSE <<>>)]

\* a reference guide that lists "No Tumor" as well
reference_guide_all ==
    [i \in 1..Len(TUMOR_ORDER) |-> GuideEntry(TUMOR_ORDER[i])]

\* the reference guide: every TUMOR_INFO entry but "No Tumor"
reference_guide ==
    LET names == SelectSeq(TUMOR_ORDER, LAMBDA tumor_name : tumor_name # "No Tumor")
    IN  [i \in 1..Len(names) |-> GuideEntry(names[i])]

NoText == [whole |-> 0, frac |-> <<>>]

NoDoc ==
    [raised |-> FALSE, sections |-> <<>>, images |-> <<>>, label |-> NONE,
     confidence_text |-> NoText, risk |-> NONE, detail |-> <<>>, appendix |-> <<>>,
     size |-> 0, pos |-> 0 - 1]

\* a story with the results table ahead of the images
story_results_first(row, detail) ==
    <<"header", "report_info", "results", "images_heading">>
    \o (IF row # <<>> THEN <<"image_table">> ELSE <<>>)
    \o (IF detail # <<>> THEN <<"detail">> ELSE <<>>)
    \o <<"appendix", "disclaimers", "footer">>

\* the story, in the order of its story.append calls
story(row, detail) ==
    <<"header", "report_info", "images_heading">>
    \o (IF row # <<>> THEN <<"image_table">> ELSE <<>>)
    \o <<"results">>
    \o (IF detail # <<>> THEN <<"detail">> ELSE <<>>)
    \o <<"appendix", "disclaimers", "footer">>

\* a return without the buffer.seek(0): the position stays behind the written bytes
seek0_forgotten(doc) == doc

\* buffer.seek(0)
seek0(doc) == [doc EXCEPT !.pos = 0]

\* generate_pdf_report(original_path, overlay_path, pred_class, confidence): the story in
\* order; doc.build draws the RLImages, which raises when a file is not a picture, and
\* writes the document into the BytesIO, leaving its position at the end
generate_pdf_report(original_path, overlay_path, pred_class, confidence) ==
    LET row == image_row(original_path, overlay_path)
        detail == detail_blocks(pred_class)
        undrawable == \E i \in 1..Len(row) : ~pil_open(row[i].path)
        sections == story(row, detail)
    IN  IF undrawable THEN [NoDoc EXCEPT !.raised = TRUE]
        ELSE seek0([raised |-> FALSE,
                    sections |-> sections,
                    images |-> row,
                    label |-> pred_class,
                    confidence_text |-> Format2(confidence_percentage(confidence)),
                    risk |-> risk_assessment(pred_class),
                    detail |-> detail,
                    appendix |-> reference_guide,
                    size |-> Len(sections),
                    pos |-> Len(sections)])

---------------------------------------------------------------------------
(* app.py: one run of the script per interaction of a session *)

NoUpload == [name |-> NONE, img |-> NONE]

Uploads == {[name |-> n, img |-> i] : n \in FileNames, i \in Images}

NoShown == [original |-> NONE, overlay |-> NoOverlay, label |-> NONE, confidence |-> NoConf]

ZeroCalls == [classify |-> 0, segment |-> 0, unet_forward |-> 0, report |-> 0]

\* a session before its first run; prev keeps the messages of the run before the current one
InitSess ==
    [pc |-> "idle", uploaded_file |-> NoUpload, clicked |-> FALSE,
     img_path |-> NONE, overlay |-> NoOverlay, pred_class |-> NONE, confidence |-> NoConf,
     classifier_model |-> NoHandle, unet_model |-> NoHandle, overlay_path |-> NONE,
     msgs |-> {}, shown |-> NoShown, pdf_buffer |-> NoDoc, download |-> FALSE,
     calls |-> ZeroCalls, seg |-> "notrun", stopped |-> FALSE, exc |-> NONE,
     cache_hits |-> {}, prev |-> {}]

NoSeg == [status |-> "notrun", overlay |-> NoOverlay, forward |-> 0]

\* the utils functions called on their own: the arguments of one call and what it returned
ApiIdle ==
    [pc |-> "off", npy |-> <<>>, fallback |-> <<>>, class_names |-> <<>>,
     img_path |-> NONE, model |-> NoHandle, preprocess |-> NONE,
     original_path |-> NONE, overlay_path |-> NONE, pred_class |-> NONE,
     confidence |-> NoConf, cls |-> Raise(NONE), seg |-> NoSeg, doc |-> NoDoc]

Init ==
    /\ fs = [p \in Paths |-> NoFile]
    /\ modelFile \in [ModelPaths -> ModelFileStates]
    /\ cache = [l \in Loaders |-> [p \in ModelPaths |-> NoHandle]]
    /\ loads = [l \in Loaders |-> [p \in ModelPaths |-> 0]]
    /\ returned = [l \in Loaders |-> {}]
    /\ sess = [s \in Sessions |-> InitSess]
    /\ api = ApiIdle

\* a rerun that keeps the globals of the run before instead of setting the safe defaults
StartRun_keep(s, upl, clk) ==
    /\ sess[s].pc = "idle"
    /\ sess' = [sess EXCEPT ![s] =
            [@ EXCEPT !.pc = "upload", !.uploaded_file = upl, !.clicked = clk,
                      !.msgs = {}, !.pdf_buffer = NoDoc, !.download = FALSE,
                      !.calls = ZeroCalls, !.stopped = FALSE, !.prev = sess[s].msgs]]
    /\ UNCHANGED <<fs, modelFile, cache, loads, returned, api>>

\* the script starts over: the safe defaults, and the widgets' values for this run
StartRun(s, upl, clk) ==
    /\ sess[s].pc = "idle"
    /\ sess' = [sess EXCEPT ![s] =
            [InitSess EXCEPT !.pc = "upload", !.uploaded_file = upl, !.clicked = clk,
                             !.prev = sess[s].msgs]]
    /\ UNCHANGED <<fs, modelFile, cache, loads, returned, api>>

\* the user drops a file on the uploader
Upload(s, upl) ==
    /\ upl \in Uploads
    /\ StartRun(s, upl, FALSE)

\* the user removes the uploaded file
RemoveUpload(s) ==
    /\ sess[s].uploaded_file # NoUpload
    /\ StartRun(s, NoUpload, FALSE)

\* the user presses "Generate Report"
ClickGenerate(s) ==
    /\ sess[s].pc = "idle"
    /\ StartRun(s, sess[s].uploaded_file, TRUE)

\* the user presses "Download PDF Report", offered by the last run
ClickDownload(s) ==
    /\ sess[s].download
    /\ StartRun(s, sess[s].uploaded_file, FALSE)

\* an except branch without its st.stop(): the script goes on with the next statement
Stopped_nostop(r, msg) ==
    [r EXCEPT !.msgs = @ \cup {msg},
              !.pc = IF r.pc = "load" THEN "classify" ELSE "segment"]

\* an except branch that shows the error and leaves the script at the failed step
Stopped_retry(r, msg) == [r EXCEPT !.msgs = @ \cup {msg}]

\* except: st.error(msg); st.stop(): the run ends here
Stopped(r, msg) == [r EXCEPT !.msgs = @ \cup {msg}, !.stopped = TRUE, !.pc = "idle"]

\* "if uploaded_file is not None" is false
NoUploadRun(s) ==
    /\ sess[s].pc = "upload"
    /\ sess[s].uploaded_file = NoUpload
    /\ sess' = [sess EXCEPT ![s].pc = "button"]
    /\ UNCHANGED <<fs, modelFile, cache, loads, returned, api>>

\* the upload is written under its own name
PersistUpload(s) ==
    /\ sess[s].pc = "upload"
    /\ sess[s].uploaded_file # NoUpload
    /\ LET img_path == join(UPLOAD_DIR, sess[s].uploaded_file.name)
       IN  /\ fs' = [fs EXCEPT ![img_path] = Mri(sess[s].uploaded_file.img)]
           /\ sess' = [sess EXCEPT ![s].img_path = img_path, ![s].pc = "load"]
    /\ UNCHANGED <<modelFile, cache, loads, returned, api>>

\* try: load_classifier, load_unet; except: st.error, st.stop
LoadModels(s) ==
    /\ sess[s].pc = "load"
    /\ LET c1 == load_classifier(CLASSIFIER_PATH, cache, loads)
           c2 == load_unet(UNET_PATH, c1.cache, c1.loads)
           r1 == [returned EXCEPT !["load_classifier"] = @ \cup {c1.handle}]
           h1 == IF c1.hit THEN {"load_classifier"} ELSE {}
           h2 == IF c2.hit THEN {"load_unet"} ELSE {}
       IN  IF c1.raised
           THEN /\ sess' = [sess EXCEPT ![s] =
                        Stopped([@ EXCEPT !.exc = "LoadError"], "load_error")]
                /\ UNCHANGED <<cache, loads, returned>>
           ELSE IF c2.raised
           THEN /\ sess' = [sess EXCEPT ![s] =
                        Stopped([@ EXCEPT !.classifier_model = c1.handle,
                                          !.cache_hits = h1, !.exc = "LoadError"],
                                "load_error")]
                /\ cache' = c1.cache
                /\ loads' = c1.loads
                /\ returned' = r1
           ELSE /\ sess' = [sess EXCEPT ![s].classifier_model = c1.handle,
                                        ![s].unet_model = c2.handle,
                                        ![s].cache_hits = h1 \cup h2,
                                        ![s].pc = "classify"]
                /\ cache' = c2.cache
                /\ loads' = c2.loads
                /\ returned' = [r1 EXCEPT !["load_unet"] = @ \cup {c2.handle}]
    /\ UNCHANGED <<fs, modelFile, api>>

\* try: classify_image; except: st.error, st.stop
Classify(s) ==
    /\ sess[s].pc = "classify"
    /\ LET r == classify_image(sess[s].img_path, sess[s].classifier_model,
                               APP_CLASS_NAMES, DEFAULT_PREPROCESS)
           counted == [sess[s] EXCEPT !.calls.classify = @ + 1]
       IN  IF r.raised # NONE
           THEN sess' = [sess EXCEPT ![s] =
                    Stopped([counted EXCEPT !.exc = r.raised], "classify_error")]
           ELSE sess' = [sess EXCEPT ![s] =
                    [counted EXCEPT !.pred_class = r.label, !.confidence = r.confidence,
                                    !.pc = "segment"]]
    /\ UNCHANGED <<fs, modelFile, cache, loads, returned, api>>

\* a segmentation step that lets the segmenter's exception end the run
SegmentStep_uncaught(cur, r) ==
    IF r.status = "raise"
    THEN Stopped([cur EXCEPT !.calls.segment = @ + 1, !.seg = r.status], "seg_error")
    ELSE [cur EXCEPT !.calls.segment = @ + 1, !.calls.unet_forward = @ + r.forward,
                     !.seg = r.status, !.overlay = r.overlay, !.pc = "render"]

\* try: overlay = segment_image_heatmap; except: st.warning, overlay = None
SegmentStep(cur, r) ==
    [cur EXCEPT !.calls.segment = @ + 1,
                !.calls.unet_forward = @ + r.forward,
                !.seg = r.status,
                !.msgs = IF r.status = "raise" THEN @ \cup {"seg_warning"} ELSE @,
                !.overlay = IF r.status = "raise" THEN NoOverlay ELSE r.overlay,
                !.pc = "render"]

Segment(s) ==
    /\ sess[s].pc = "segment"
    /\ sess' = [sess EXCEPT ![s] =
            SegmentStep(@, segment_image_heatmap(sess[s].unet_model, sess[s].img_path))]
    /\ UNCHANGED <<fs, modelFile, cache, loads, returned, api>>

\* the two columns and the prediction card
Render(s) ==
    /\ sess[s].pc = "render"
    /\ sess' = [sess EXCEPT
            ![s].shown = [original |-> sess[s].uploaded_file.img,
                          overlay |-> sess[s].overlay,
                          label |-> sess[s].pred_class,
                          confidence |-> sess[s].confidence],
            ![s].msgs = IF sess[s].overlay = NoOverlay
                        THEN @ \cup {"seg_unavailable"} ELSE @,
            ![s].pc = "button"]
    /\ UNCHANGED <<fs, modelFile, cache, loads, returned, api>>

\* st.button returns False: the rest of the page, and the run is over
RunEnd(s) ==
    /\ sess[s].pc = "button"
    /\ ~sess[s].clicked
    /\ sess' = [sess EXCEPT ![s].pc = "idle"]
    /\ UNCHANGED <<fs, modelFile, cache, loads, returned, api>>

\* a handler that goes on to the report whatever the run has produced
ReportGuard_none(cur) == "report"

\* the tests of the button's handler: which branch it takes
ReportGuard(cur) ==
    IF ~truthy(cur.img_path) THEN "no_upload_error"
    ELSE IF ~truthy(cur.pred_class) \/ cur.confidence = NoConf THEN "no_class_warning"
    ELSE "report"

\* a handler that hands temp_overlay.png to the report whether or not it wrote the file
ReportButton_alwayspath(s) ==
    /\ sess[s].pc = "button"
    /\ sess[s].clicked
    /\ LET g == ReportGuard(sess[s])
       IN  IF g # "report"
           THEN /\ sess' = [sess EXCEPT ![s].msgs = @ \cup {g}, ![s].pc = "idle"]
                /\ fs' = fs
           ELSE /\ sess' = [sess EXCEPT ![s].overlay_path = TEMP_OVERLAY, ![s].pc = "build"]
                /\ fs' = IF sess[s].overlay # NoOverlay
                         THEN [fs EXCEPT ![TEMP_OVERLAY] = sess[s].overlay] ELSE fs
    /\ UNCHANGED <<modelFile, cache, loads, returned, api>>

\* st.button returns True: the tests, then the overlay is written to temp_overlay.png
ReportButton(s) ==
    /\ sess[s].pc = "button"
    /\ sess[s].clicked
    /\ LET g == ReportGuard(sess[s])
       IN  IF g # "report"
           THEN /\ sess' = [sess EXCEPT ![s].msgs = @ \cup {g}, ![s].pc = "idle"]
                /\ fs' = fs
           ELSE IF sess[s].overlay # NoOverlay
           THEN /\ sess' = [sess EXCEPT ![s].overlay_path = TEMP_OVERLAY, ![s].pc = "build"]
                /\ fs' = [fs EXCEPT ![TEMP_OVERLAY] = sess[s].overlay]
           ELSE /\ sess' = [sess EXCEPT ![s].overlay_path = NONE, ![s].pc = "build"]
                /\ fs' = fs
    /\ UNCHANGED <<modelFile, cache, loads, returned, api>>

\* generate_pdf_report, then the download button; an exception ends the run
BuildReport(s) ==
    /\ sess[s].pc = "build"
    /\ LET d == generate_pdf_report(sess[s].img_path, sess[s].overlay_path,
                                    sess[s].pred_class, sess[s].confidence)
           counted == [sess[s] EXCEPT !.calls.report = @ + 1, !.pc = "idle"]
       IN  IF d.raised
           THEN sess' = [sess EXCEPT ![s] = [counted EXCEPT !.msgs = @ \cup {"exception"}]]
           ELSE sess' = [sess EXCEPT ![s] =
                    [counted EXCEPT !.pdf_buffer = d, !.download = TRUE]]
    /\ UNCHANGED <<fs, modelFile, cache, loads, returned, api>>

\* a model file is put in place, replaced or removed on the server
EnvModelFile(p, st) ==
    /\ modelFile[p] # st
    /\ modelFile' = [modelFile EXCEPT ![p] = st]
    /\ UNCHANGED <<fs, cache, loads, returned, sess, api>>

Run(s) ==
    \/ \E upl \in Uploads : Upload(s, upl)
    \/ RemoveUpload(s)
    \/ ClickGenerate(s)
    \/ ClickDownload(s)
    \/ NoUploadRun(s)
    \/ PersistUpload(s)
    \/ LoadModels(s)
    \/ Classify(s)
    \/ Segment(s)
    \/ Render(s)
    \/ RunEnd(s)
    \/ ReportButton(s)
    \/ BuildReport(s)

Env == \E p \in ModelPaths, st \in ModelFileStates : EnvModelFile(p, st)

\* one user at a time
Next == Run("s1") \/ Env

Spec == Init /\ [][Next]_vars

---------------------------------------------------------------------------
(* Two users on the same server: each session runs the script in a thread of its own *)

\* what the two users upload: two pictures under the same name, one under another name
SharedUploads ==
    {[name |-> "a.png", img |-> "glioma"], [name |-> "a.png", img |-> "healthy"],
     [name |-> "b.png", img |-> "healthy"]}

\* both model files are in place
InitShared ==
    /\ fs = [p \in Paths |-> NoFile]
    /\ modelFile = [p \in ModelPaths |-> "ok"]
    /\ cache = [l \in Loaders |-> [p \in ModelPaths |-> NoHandle]]
    /\ loads = [l \in Loaders |-> [p \in ModelPaths |-> 0]]
    /\ returned = [l \in Loaders |-> {}]
    /\ sess = [s \in Sessions |-> InitSess]
    /\ api = ApiIdle

RunShared(s) ==
    \/ \E upl \in SharedUploads : Upload(s, upl)
    \/ RemoveUpload(s)
    \/ ClickGenerate(s)
    \/ ClickDownload(s)
    \/ NoUploadRun(s)
    \/ PersistUpload(s)
    \/ LoadModels(s)
    \/ Classify(s)
    \/ Segment(s)
    \/ Render(s)
    \/ RunEnd(s)
    \/ ReportButton(s)
    \/ BuildReport(s)

\* the statements of the two sessions' runs interleave
NextShared == \E s \in Sessions : RunShared(s)

SpecShared == InitShared /\ [][NextShared]_vars

---------------------------------------------------------------------------
(* The functions of utils/ applied to arguments of their own *)

ApiImagePaths == {join(UPLOAD_DIR, "a.png"), MISSING_PATH}

ApiModels == {[path |-> p, arch |-> a, gen |-> 1] : p \in ModelPaths, a \in {"ok", "badshape"}}

ApiLabels ==
    {APP_CLASS_NAMES[i] : i \in 1..Len(APP_CLASS_NAMES)} \cup {"no_tumor", "Unknown"}

\* 92.5, 88.0, 45.678, 0.925 (a fraction passed by mistake), 0.004, 0, 100 and None
ApiConfidences == {92500 * Percent, 88000 * Percent, 45678 * Percent, 92600, 400, 0,
                   Scale * Percent, NoConf}

ApiReportPaths == {NONE, "", MISSING_PATH}

ApiFiles ==
    {f \in [Paths -> FileContents] :
        /\ f[join(UPLOAD_DIR, "a.png")].kind # "overlay"
        /\ f[join(UPLOAD_DIR, "b.png")] = NoFile
        /\ f[TEMP_OVERLAY] \in {NoFile, OverlayOf("glioma")}}

ApiClassifyCalls ==
    {[ApiIdle EXCEPT !.pc = "names", !.npy = n, !.img_path = ip, !.model = m,
                     !.preprocess = pm] :
        n \in {<<>>, APP_CLASS_NAMES}, ip \in ApiImagePaths, m \in ApiModels,
        pm \in PreprocessModes \cup {"imagenet"}}

ApiSegmentCalls ==
    {[ApiIdle EXCEPT !.pc = "segment", !.img_path = ip, !.model = m] :
        ip \in ApiImagePaths, m \in ApiModels}

ApiReportCalls ==
    {[ApiIdle EXCEPT !.pc = "report", !.original_path = op, !.overlay_path = vp,
                     !.pred_class = l, !.confidence = c] :
        op \in ApiReportPaths \cup {join(UPLOAD_DIR, "a.png")},
        vp \in ApiReportPaths \cup {TEMP_OVERLAY},
        l \in ApiLabels, c \in ApiConfidences}

InitApi ==
    /\ fs \in ApiFiles
    /\ modelFile = [p \in ModelPaths |-> "ok"]
    /\ cache = [l \in Loaders |-> [p \in ModelPaths |-> NoHandle]]
    /\ loads = [l \in Loaders |-> [p \in ModelPaths |-> 0]]
    /\ returned = [l \in Loaders |-> {}]
    /\ sess = [s \in Sessions |-> InitSess]
    /\ api \in ApiClassifyCalls \cup ApiSegmentCalls \cup ApiReportCalls

ApiClassNames ==
    /\ api.pc = "names"
    /\ api' = [api EXCEPT !.class_names = load_class_names(api.npy, api.fallback),
                          !.pc = "classify"]
    /\ UNCHANGED <<fs, modelFile, cache, loads, returned, sess>>

ApiClassify ==
    /\ api.pc = "classify"
    /\ api' = [api EXCEPT !.cls = classify_image(api.img_path, api.model, api.class_names,
                                                 api.preprocess),
                          !.pc = "classified"]
    /\ UNCHANGED <<fs, modelFile, cache, loads, returned, sess>>

ApiSegment ==
    /\ api.pc = "segment"
    /\ api' = [api EXCEPT !.seg = segment_image_heatmap(api.model, api.img_path),
                          !.pc = "segmented"]
    /\ UNCHANGED <<fs, modelFile, cache, loads, returned, sess>>

ApiReport ==
    /\ api.pc = "report"
    /\ api' = [api EXCEPT !.doc = generate_pdf_report(api.original_path, api.overlay_path,
                                                      api.pred_class, api.confidence),
                          !.pc = "reported"]
    /\ UNCHANGED <<fs, modelFile, cache, loads, returned, sess>>

NextApi == ApiClassNames \/ ApiClassify \/ ApiSegment \/ ApiReport

SpecApi == InitApi /\ [][NextApi]_vars

---------------------------------------------------------------------------
(* Properties *)

NoReport(r) == r.calls.report = 0 /\ r.pdf_buffer = NoDoc /\ ~r.download

\* C1: a run whose model loading failed shows the loading error and ends there: no call of
\* classify_image or segment_image_heatmap, nothing displayed, no report and no download;
\* the session is back at rest, where the next interaction starts a new run, and the failed
\* call has left nothing in the loaders' cache.
C1_LoadFailureHalts ==
    \A s \in Sessions :
        /\ "load_error" \in sess[s].msgs =>
              /\ sess[s].msgs = {"load_error"}
              /\ sess[s].stopped /\ sess[s].pc = "idle"
              /\ sess[s].calls = ZeroCalls
              /\ sess[s].pred_class = NONE /\ sess[s].shown = NoShown
              /\ NoReport(sess[s])
              /\ \E upl \in Uploads : ENABLED Upload(s, upl)
        /\ sess[s].pc \in {"classify", "segment", "render", "build"} =>
              /\ sess[s].classifier_model # NoHandle
              /\ sess[s].unet_model # NoHandle
        /\ \A l \in Loaders, p \in ModelPaths :
              cache[l][p] # NoHandle => cache[l][p].path = p /\ cache[l][p].gen >= 1

\* C1 witness: the run before this one ended with the loading error, and this run of the
\* same process has classified and displayed its upload
C1_Witness ==
    /\ "load_error" \in sess["s1"].prev
    /\ sess["s1"].shown # NoShown
    /\ sess["s1"].pc = "idle"

\* C2: when classify_image raises (unreadable picture, or the model rejecting the tensor)
\* the run ends with the classification error: no label, no confidence, no call of
\* segment_image_heatmap, nothing displayed and no report; a run gets past classification
\* only with a picture PIL can read and a model that accepts it.
C2_ClassifyFailureHalts ==
    \A s \in Sessions :
        /\ "classify_error" \in sess[s].msgs =>
              /\ sess[s].exc \in {"ImageError", "ShapeError"}
              /\ sess[s].stopped /\ sess[s].pc = "idle"
              /\ sess[s].pred_class = NONE /\ sess[s].confidence = NoConf
              /\ sess[s].calls.classify = 1
              /\ sess[s].calls.segment = 0 /\ sess[s].calls.unet_forward = 0
              /\ sess[s].shown = NoShown
              /\ NoReport(sess[s])
        /\ sess[s].calls.classify = 1 /\ ~sess[s].stopped =>
              /\ sess[s].uploaded_file.img \in PILReadable
              /\ sess[s].classifier_model.arch = "ok"
              /\ sess[s].pred_class # NONE /\ sess[s].confidence # NoConf
        /\ sess[s].calls.segment > 0 \/ sess[s].calls.report > 0 =>
              sess[s].calls.classify = 1 /\ sess[s].pred_class # NONE

\* C2 witness: the user pressed Generate Report on an unreadable upload; the run ended with
\* the classification error
C2_Witness ==
    /\ "classify_error" \in sess["s1"].msgs
    /\ sess["s1"].exc = "ImageError"
    /\ sess["s1"].clicked

\* C3: in a run where classification succeeded and segment_image_heatmap raised or returned
\* None, the overlay is None, the run is not stopped, the label and confidence are displayed
\* and, when Generate Report was pressed, the report is built without an overlay image and
\* offered for download.
C3_SegmentationDegrades ==
    \A s \in Sessions :
        sess[s].seg \in {"raise", "none"} =>
            /\ sess[s].overlay = NoOverlay
            /\ ~sess[s].stopped
            /\ sess[s].pred_class # NONE
            /\ ("seg_warning" \in sess[s].msgs) = (sess[s].seg = "raise")
            /\ sess[s].pc \in {"render", "button", "build", "idle"}
            /\ sess[s].pc # "render" =>
                  /\ sess[s].shown.label = sess[s].pred_class
                  /\ sess[s].shown.confidence = sess[s].confidence
                  /\ sess[s].shown.overlay = NoOverlay
            /\ sess[s].pc = "idle" /\ sess[s].clicked =>
                  /\ sess[s].download
                  /\ sess[s].pdf_buffer # NoDoc /\ ~sess[s].pdf_buffer.raised
                  /\ sess[s].pdf_buffer.label = sess[s].pred_class
                  /\ Len(sess[s].pdf_buffer.images) = 1
                  /\ sess[s].pdf_buffer.images[1].slot = "original"

\* C3 witness: the segmenter raised, the warning was shown, and the report of this run,
\* without an overlay, is offered for download
C3_Witness ==
    /\ sess["s1"].seg = "raise"
    /\ "seg_warning" \in sess["s1"].msgs
    /\ sess["s1"].pc = "idle"
    /\ sess["s1"].download
    /\ sess["s1"].pdf_buffer.images[1].slot = "original"

\* C4 as stated: generate_pdf_report is called only with an upload, a label and a
\* confidence; Generate Report pressed with no upload gives the error, pressed in a run that
\* has no classification result gives the warning; neither builds a report.
C4_AsStated ==
    \A s \in Sessions :
        /\ sess[s].calls.report > 0 =>
              /\ sess[s].uploaded_file # NoUpload /\ truthy(sess[s].img_path)
              /\ truthy(sess[s].pred_class) /\ sess[s].confidence # NoConf
        /\ sess[s].pc = "idle" /\ sess[s].clicked /\ sess[s].uploaded_file = NoUpload =>
              "no_upload_error" \in sess[s].msgs /\ NoReport(sess[s])
        /\ /\ sess[s].pc = "idle" /\ sess[s].clicked
           /\ sess[s].uploaded_file # NoUpload /\ sess[s].pred_class = NONE
           => "no_class_warning" \in sess[s].msgs /\ NoReport(sess[s])

\* C4 amended: generate_pdf_report is called only with an upload, a label and a
\* confidence; Generate Report pressed with no upload gives the error; a run with an upload
\* and no classification result has been stopped at the loading or classification error
\* before the button's handler, so the warning is never shown; in none of these runs is a
\* report built or a download offered.
C4_ReportOnlyAfterClassification ==
    \A s \in Sessions :
        /\ sess[s].calls.report > 0 =>
              /\ sess[s].uploaded_file # NoUpload /\ truthy(sess[s].img_path)
              /\ truthy(sess[s].pred_class) /\ sess[s].confidence # NoConf
              /\ sess[s].clicked
        /\ sess[s].pc = "idle" /\ sess[s].clicked /\ sess[s].uploaded_file = NoUpload =>
              "no_upload_error" \in sess[s].msgs /\ NoReport(sess[s])
        /\ /\ sess[s].pc = "idle" /\ sess[s].clicked
           /\ sess[s].uploaded_file # NoUpload /\ sess[s].pred_class = NONE
           => /\ sess[s].stopped
              /\ sess[s].msgs \in {{"load_error"}, {"classify_error"}}
              /\ NoReport(sess[s])
        /\ "no_class_warning" \notin sess[s].msgs

\* C4 witness: Generate Report pressed with an upload whose classification failed
C4_Witness ==
    /\ sess["s1"].pc = "idle" /\ sess["s1"].clicked
    /\ sess["s1"].uploaded_file # NoUpload
    /\ sess["s1"].pred_class = NONE

\* C5: each loader parses a path from disk successfully at most once in the life of the
\* process, every call that returns hands out that one handle, and the handles a run holds
\* are the cached ones.
C5_LoadOncePerPath ==
    /\ \A l \in Loaders, p \in ModelPaths : loads[l][p] <= 1
    /\ \A l \in Loaders : Cardinality(returned[l]) <= 1
    /\ \A l \in Loaders : \A h \in returned[l] : h = cache[l][h.path] /\ h.gen = 1
    /\ \A s \in Sessions :
          /\ sess[s].classifier_model \in
                {NoHandle, cache["load_classifier"][CLASSIFIER_PATH]}
          /\ sess[s].unet_model \in {NoHandle, cache["load_unet"][UNET_PATH]}
          /\ "load_classifier" \in sess[s].cache_hits =>
                sess[s].classifier_model \in returned["load_classifier"]

\* C5 witness: both loaders answered this run from the cache, although the classifier's
\* file has been replaced by one of another architecture since it was parsed
C5_Witness ==
    /\ sess["s1"].cache_hits = Loaders
    /\ sess["s1"].pc = "classify"
    /\ modelFile[CLASSIFIER_PATH] = "badshape"
    /\ sess["s1"].classifier_model.arch = "ok"
    /\ loads["load_classifier"][CLASSIFIER_PATH] = 1


Range(f) == {f[i] : i \in DOMAIN f}

\* C6: the label set the classifier works with is the key set of TUMOR_INFO, and every label
\* classify_image returns is a key of TUMOR_INFO.
C6_LabelsAreTumorInfoKeys ==
    api.pc = "classified" /\ api.cls.raised = NONE =>
        /\ api.cls.label \in DOMAIN TUMOR_INFO
        /\ Range(api.class_names) = DOMAIN TUMOR_INFO

\* C7: segment_image_heatmap on a path cv2.imread cannot read returns None, whatever the
\* model, and has run no forward pass.
C7_UnreadableGivesNoOverlay ==
    api.pc = "segmented" /\ ~cv_imread(api.img_path) =>
        /\ api.seg.status = "none"
        /\ api.seg.overlay = NoOverlay
        /\ api.seg.forward = 0

\* C7 witness: the call on a path with no file, with a model whose forward pass would raise
C7_Witness ==
    /\ api.pc = "segmented"
    /\ api.img_path = MISSING_PATH
    /\ api.model.arch = "badshape"
    /\ api.seg.status = "none"

\* C8: in every report the risk line is the HIGH PRIORITY text exactly when the label is not
\* "No Tumor" and the NORMAL text exactly when it is, for labels in and outside TUMOR_INFO.
C8_RiskLine ==
    api.pc = "reported" /\ ~api.doc.raised =>
        /\ api.doc.risk \in {HIGH_PRIORITY, NORMAL}
        /\ (api.doc.risk = HIGH_PRIORITY) = (api.pred_class # "No Tumor")
        /\ (api.doc.risk = NORMAL) = (api.pred_class = "No Tumor")

\* C8 witness: a report for a label that is no key of TUMOR_INFO carries the HIGH PRIORITY
\* line
C8_Witness ==
    /\ api.pc = "reported" /\ ~api.doc.raised
    /\ api.pred_class = "no_tumor"
    /\ api.doc.risk = HIGH_PRIORITY

Hundredths(t) == t.whole * 100 + t.frac[1] * 10 + t.frac[2]

Given(path) == path # NONE /\ path # "" /\ path \in DOMAIN fs /\ fs[path] # NoFile

\* C10: generate_pdf_report fails only on a file that exists and is no picture, never on a
\* missing one; the document it returns holds exactly the images whose path is non-empty
\* and exists, the original before the overlay, and the image table only when there is one.
C10_ImagesSection ==
    api.pc = "reported" =>
        LET want == (IF Given(api.original_path) THEN <<"original">> ELSE <<>>)
                    \o (IF Given(api.overlay_path) THEN <<"overlay">> ELSE <<>>)
            doc == api.doc
        IN  /\ doc.raised =>
                 \/ Given(api.original_path) /\ ~pil_open(api.original_path)
                 \/ Given(api.overlay_path) /\ ~pil_open(api.overlay_path)
            /\ ~doc.raised =>
                 /\ doc.pos = 0
                 /\ [i \in 1..Len(doc.images) |-> doc.images[i].slot] = want
                 /\ \A i \in 1..Len(doc.images) :
                       /\ doc.images[i].slot = "original" =>
                             doc.images[i].path = api.original_path
                       /\ doc.images[i].slot = "overlay" =>
                             doc.images[i].path = api.overlay_path
                       /\ doc.images[i].content = fs[doc.images[i].path]
                 /\ "images_heading" \in Range(doc.sections)
                 /\ ("image_table" \in Range(doc.sections)) = (want # <<>>)
                 /\ api.overlay_path = NONE =>
                       \A i \in 1..Len(doc.images) : doc.images[i].slot = "original"

\* C10 witness: overlay_path None and an existing original: the images section holds the
\* original alone
C10_Witness ==
    /\ api.pc = "reported" /\ ~api.doc.raised
    /\ api.overlay_path = NONE
    /\ fs[TEMP_OVERLAY] # NoFile
    /\ Len(api.doc.images) = 1
    /\ api.doc.images[1].slot = "original"


PositiveBlock == {"types", "symptoms", "treatment_options", "prognosis", "prevalence"}

NormalLists == {"normal_findings", "recommendations"}

TumorLabels == {"Glioma Tumor", "Meningioma Tumor", "Pituitary Tumor"}

\* C11: the detailed-information section of a report for "No Tumor" holds none of subtypes,
\* symptoms, treatment options, prognosis and prevalence and holds the normal findings and
\* the recommendations; for each of the three tumor labels it holds those five blocks and
\* neither the normal findings nor the recommendations.
C11_DetailByClass ==
    api.pc = "reported" /\ ~api.doc.raised =>
        /\ api.pred_class = "No Tumor" =>
              /\ Range(api.doc.detail) \cap PositiveBlock = {}
              /\ NormalLists \subseteq Range(api.doc.detail)
              /\ "detail" \in Range(api.doc.sections)
        /\ api.pred_class \in TumorLabels =>
              /\ PositiveBlock \subseteq Range(api.doc.detail)
              /\ Range(api.doc.detail) \cap NormalLists = {}
              /\ "detail" \in Range(api.doc.sections)

\* C11 witness: a report for "No Tumor" with no overlay given
C11_Witness ==
    /\ api.pc = "reported" /\ ~api.doc.raised
    /\ api.pred_class = "No Tumor"
    /\ api.overlay_path = NONE
    /\ api.doc.detail = <<"description", "normal_findings", "recommendations">>

MandatorySections ==
    {"header", "report_info", "images_heading", "results", "appendix", "disclaimers", "footer"}

\* C12: for a label that is no key of TUMOR_INFO generate_pdf_report does not fail because
\* of the label, and the document lacks the detailed-information section and nothing else:
\* header, images, results table, reference appendix, disclaimers and footer are there.
C12_UnknownLabelOmitsDetailOnly ==
    api.pc = "reported" /\ api.pred_class \notin DOMAIN TUMOR_INFO =>
        /\ api.doc.raised =>
              \/ Given(api.original_path) /\ ~pil_open(api.original_path)
              \/ Given(api.overlay_path) /\ ~pil_open(api.overlay_path)
        /\ ~api.doc.raised =>
              /\ "detail" \notin Range(api.doc.sections)
              /\ api.doc.detail = <<>>
              /\ MandatorySections \subseteq Range(api.doc.sections)
              /\ ("image_table" \in Range(api.doc.sections)) = (api.doc.images # <<>>)
              /\ api.doc.label = api.pred_class
              /\ api.doc.risk # NONE
              /\ Len(api.doc.appendix) = 3

\* C12 witness: a report for the label "Unknown" with both images
C12_Witness ==
    /\ api.pc = "reported" /\ ~api.doc.raised
    /\ api.pred_class = "Unknown"
    /\ Len(api.doc.images) = 2
    /\ "detail" \notin Range(api.doc.sections)

\* the sections named in chain that occur in seq occur once each and in chain's order
InOrder(seq, chain) ==
    /\ \A i, j \in 1..Len(seq) : i # j /\ seq[i] \in Range(chain) => seq[i] # seq[j]
    /\ \A a, b \in 1..Len(chain) : \A i, j \in 1..Len(seq) :
          a < b /\ seq[i] = chain[a] /\ seq[j] = chain[b] => i < j

\* C13 as stated: header, results table, images, detailed information, appendix,
\* disclaimers, footer, in this order.
C13_AsStated ==
    api.pc = "reported" /\ ~api.doc.raised =>
        InOrder(api.doc.sections,
                <<"header", "report_info", "results", "images_heading", "image_table",
                  "detail", "appendix", "disclaimers", "footer">>)

\* C13 amended: header block, images (heading and table), results table, detailed
\* information, appendix, disclaimers, footer, in this order; the image table and the
\* detailed information may be missing, the others never are.
C13_SectionOrder ==
    api.pc = "reported" /\ ~api.doc.raised =>
        /\ InOrder(api.doc.sections,
                   <<"header", "report_info", "images_heading", "image_table", "results",
                     "detail", "appendix", "disclaimers", "footer">>)
        /\ MandatorySections \subseteq Range(api.doc.sections)
        /\ Range(api.doc.sections) \subseteq MandatorySections \cup {"image_table", "detail"}

\* C13 witness: a report with every section, the image table and the detail included
C13_Witness ==
    /\ api.pc = "reported" /\ ~api.doc.raised
    /\ Len(api.doc.sections) = 9
    /\ api.doc.sections[4] = "image_table"
    /\ api.doc.sections[5] = "results"

\* C14: each of the four labels has a TUMOR_INFO record with a description; the three tumor
\* records have non-empty symptoms and treatment_options, the "No Tumor" record non-empty
\* normal_findings and recommendations; a report for such a label finds its record.
C14_TumorInfoComplete ==
    /\ \A l \in Range(APP_CLASS_NAMES) :
          /\ l \in DOMAIN TUMOR_INFO
          /\ "description" \in DOMAIN TUMOR_INFO[l] /\ TUMOR_INFO[l]["description"] > 0
          /\ \A f \in IF l = "No Tumor" THEN NormalLists
                      ELSE {"symptoms", "treatment_options"} :
                f \in DOMAIN TUMOR_INFO[l] /\ TUMOR_INFO[l][f] > 0
    /\ api.pc = "reported" /\ ~api.doc.raised /\ api.pred_class \in Range(APP_CLASS_NAMES) =>
          /\ api.doc.detail # <<>>
          /\ api.doc.detail[1] = "description"
          /\ \A i \in 1..Len(api.doc.detail) :
                TUMOR_INFO[api.pred_class][api.doc.detail[i]] > 0

\* C14 witness: a report for "Pituitary Tumor" shows its eight symptoms
C14_Witness ==
    /\ api.pc = "reported" /\ ~api.doc.raised
    /\ api.pred_class = "Pituitary Tumor"
    /\ "symptoms" \in Range(api.doc.detail)
    /\ TUMOR_INFO[api.pred_class]["symptoms"] = 8


\* C16: a call of generate_pdf_report changes no file; the buffer it returns holds the whole
\* document, the footer last, and its read position is offset 0.
C16_BufferAtZeroNoFile ==
    [][api.pc = "report" /\ api'.pc = "reported" =>
          /\ fs' = fs
          /\ ~api'.doc.raised =>
                /\ api'.doc.pos = 0
                /\ api'.doc.size = Len(api'.doc.sections)
                /\ api'.doc.size > 0
                /\ api'.doc.sections[api'.doc.size] = "footer"]_vars

\* C16 witness: a returned buffer at offset 0 while temp_overlay.png is not on the disk
C16_Witness ==
    /\ api.pc = "reported" /\ ~api.doc.raised
    /\ api.doc.pos = 0 /\ api.doc.size > 0
    /\ fs[TEMP_OVERLAY] = NoFile
    /\ api.overlay_path = TEMP_OVERLAY

\* the steps of one run of the script, as moves of the script's position
StepEdge(r, q) ==
    \/ r.pc = "idle" /\ q.pc = "upload"
    \/ /\ r.pc = "upload" /\ q.pc = "load"
       /\ r.uploaded_file # NoUpload
       /\ q.img_path # NONE /\ fs'[q.img_path] = Mri(r.uploaded_file.img)
    \/ r.pc = "upload" /\ q.pc = "button" /\ r.uploaded_file = NoUpload
    \/ /\ r.pc = "load" /\ q.pc = "classify"
       /\ q.classifier_model # NoHandle /\ q.unet_model # NoHandle
       /\ ~q.stopped
    \/ /\ r.pc = "load" /\ q.pc = "idle"
       /\ q.stopped /\ "load_error" \in q.msgs
       /\ q.calls = ZeroCalls /\ q.shown = NoShown
    \/ /\ r.pc = "classify" /\ q.pc = "segment"
       /\ r.calls.classify = 0 /\ q.calls.classify = 1
       /\ q.pred_class # NONE /\ q.confidence # NoConf
       /\ ~q.stopped
    \/ /\ r.pc = "classify" /\ q.pc = "idle"
       /\ r.calls.classify = 0 /\ q.calls.classify = 1
       /\ q.stopped /\ "classify_error" \in q.msgs
       /\ q.calls.segment = 0 /\ q.shown = NoShown
    \/ /\ r.pc = "segment" /\ q.pc = "render"
       /\ r.calls.segment = 0 /\ q.calls.segment = 1
       /\ q.seg \in {"overlay", "none", "raise"}
       /\ ~q.stopped
    \/ /\ r.pc = "render" /\ q.pc = "button"
       /\ q.shown.label = r.pred_class
       /\ q.calls.classify = 1 /\ q.calls.segment = 1
    \/ r.pc = "button" /\ q.pc \in {"idle", "build"}
    \/ r.pc = "build" /\ q.pc = "idle"

\* C17: in one run the script goes upload persisted, model load, classify, segment, render,
\* each step once and only after the step before it has succeeded; a failed load or
\* classification ends the run, a failed segmentation does not, and no step is run again.
C17_StepOrder ==
    [][\A s \in Sessions : sess'[s] # sess[s] => StepEdge(sess[s], sess'[s])]_vars

\* C17 witness: the page is rendered after a segmentation that raised, every step run once
C17_Witness ==
    /\ sess["s1"].pc = "button"
    /\ sess["s1"].seg = "raise"
    /\ sess["s1"].calls.classify = 1 /\ sess["s1"].calls.segment = 1
    /\ sess["s1"].shown.label # NONE
    /\ ~sess["s1"].stopped

\* the lowest index of a largest entry of v
LowestMaxIndex(v) ==
    CHOOSE i \in 1..Len(v) :
        /\ \A j \in 1..Len(v) : v[j] <= v[i]
        /\ \A j \in 1..Len(v) : v[j] = v[i] => i <= j

\* C18: the label classify_image returns is class_names[i], i the lowest index of the
\* largest probability, its confidence is 100 times that probability, and the label is an
\* element of class_names.
C18_ArgmaxLabel ==
    api.pc = "classified" /\ api.cls.raised = NONE =>
        LET preds == predict(fs[api.img_path].img)
            i == LowestMaxIndex(preds)
        IN  /\ i \in 1..Len(api.class_names)
            /\ api.cls.label = api.class_names[i]
            /\ api.cls.confidence = Percent * preds[i]
            /\ api.cls.label \in Range(api.class_names)

\* C18 witness: the picture with two equal largest probabilities, at the second and the
\* fourth index, is given the second label with confidence 40
C18_Witness ==
    /\ api.pc = "classified" /\ api.cls.raised = NONE
    /\ fs[api.img_path].img = "ambiguous"
    /\ api.class_names = APP_CLASS_NAMES
    /\ api.cls.label = APP_CLASS_NAMES[2]
    /\ api.cls.confidence = 40000 * Percent

\* C19: the modes "none", "rescale01" and "efficientnet" are accepted, "none" being the
\* default; with any other mode classify_image raises before the forward pass and returns
\* neither a label nor a confidence.
C19_PreprocessModes ==
    /\ DEFAULT_PREPROCESS = "none"
    /\ api.pc = "classified" =>
          IF api.preprocess \in {"none", "rescale01", "efficientnet"}
          THEN pil_open(api.img_path) /\ api.model.arch = "ok" =>
                  api.cls.raised = NONE /\ api.cls.forward = 1
          ELSE /\ api.cls.raised # NONE
               /\ pil_open(api.img_path) => api.cls.raised = "ValueError"
               /\ api.cls.forward = 0
               /\ api.cls.label = NONE /\ api.cls.confidence = NoConf

\* C19 witness: mode "imagenet" on a readable picture and a fitting model is rejected
C19_Witness ==
    /\ api.pc = "classified"
    /\ api.preprocess = "imagenet"
    /\ pil_open(api.img_path) /\ api.model.arch = "ok"
    /\ api.cls.raised = "ValueError" /\ api.cls.forward = 0

\* C20: whatever the predicted label, the reference guide of a report holds the description
\* and the prevalence of Glioma Tumor, Meningioma Tumor and Pituitary Tumor, in this order,
\* and nothing for "No Tumor".
C20_ReferenceGuide ==
    api.pc = "reported" /\ ~api.doc.raised =>
        /\ api.doc.appendix =
              <<[name |-> "Glioma Tumor", texts |-> <<"description", "prevalence">>],
                [name |-> "Meningioma Tumor", texts |-> <<"description", "prevalence">>],
                [name |-> "Pituitary Tumor", texts |-> <<"description", "prevalence">>]>>
        /\ {api.doc.appendix[i].name : i \in 1..Len(api.doc.appendix)}
              = DOMAIN TUMOR_INFO \ {"No Tumor"}
        /\ "appendix" \in Range(api.doc.sections)

\* C20 witness: a report for "No Tumor" with the three tumors in its reference guide
C20_Witness ==
    /\ api.pc = "reported" /\ ~api.doc.raised
    /\ api.pred_class = "No Tumor"
    /\ Len(api.doc.appendix) = 3
    /\ api.doc.appendix[3].name = "Pituitary Tumor"


\* the label the classifier gives to picture img with the application's label list
LabelOf(img) == APP_CLASS_NAMES[LowestMaxIndex(predict(img))]

\* C21: the picture that classify_image and segment_image_heatmap read in a run is the
\* picture uploaded in that run, also when the runs of two sessions interleave: the label
\* is the label of the session's own upload and the overlay is the overlay of that upload.
C21_ReadsOwnUpload ==
    \A s \in Sessions :
        /\ sess[s].pred_class # NONE =>
              sess[s].pred_class = LabelOf(sess[s].uploaded_file.img)
        /\ sess[s].overlay # NoOverlay =>
              sess[s].overlay = OverlayOf(sess[s].uploaded_file.img)

\* C23: the overlay picture in a report is the overlay the same run computed and wrote to
\* temp_overlay.png, also when two sessions generate reports in an interleaved way.
C23_OwnOverlayEmbedded ==
    \A s \in Sessions :
        sess[s].pdf_buffer # NoDoc =>
            \A i \in 1..Len(sess[s].pdf_buffer.images) :
                sess[s].pdf_buffer.images[i].slot = "overlay" =>
                    sess[s].pdf_buffer.images[i].content = sess[s].overlay


\* C22: a run whose segmentation gave no overlay passes None as overlay_path, and the report
\* it builds holds no overlay picture, whatever temp_overlay.png an earlier run has left.
C22_NoStaleOverlay ==
    \A s \in Sessions :
        sess[s].overlay = NoOverlay =>
            /\ sess[s].pc = "build" => sess[s].overlay_path = NONE
            /\ sess[s].pdf_buffer # NoDoc =>
                  /\ sess[s].overlay_path = NONE
                  /\ \A i \in 1..Len(sess[s].pdf_buffer.images) :
                        sess[s].pdf_buffer.images[i].slot # "overlay"

\* C22 witness: a report without overlay while an earlier run's temp_overlay.png exists
C22_Witness ==
    /\ sess["s1"].pdf_buffer # NoDoc
    /\ sess["s1"].overlay = NoOverlay
    /\ fs[TEMP_OVERLAY] # NoFile
    /\ Len(sess["s1"].pdf_buffer.images) = 1

\* C24: every run starts with img_path, overlay, pred_class and confidence at None; a report
\* carries the label, the confidence and the pictures of the upload of the run that built
\* it; Generate Report with the upload removed gives the no-upload error and no report.
C24_NothingSurvivesARun ==
    \A s \in Sessions :
        /\ sess[s].pc = "upload" =>
              /\ sess[s].img_path = NONE /\ sess[s].overlay = NoOverlay
              /\ sess[s].pred_class = NONE /\ sess[s].confidence = NoConf
        /\ sess[s].pdf_buffer # NoDoc =>
              LET img == sess[s].uploaded_file.img
                  doc == sess[s].pdf_buffer
                  preds == predict(img)
              IN  /\ sess[s].uploaded_file # NoUpload
                  /\ doc.label = LabelOf(img)
                  /\ doc.confidence_text =
                        Format2(confidence_percentage(Percent * preds[LowestMaxIndex(preds)]))
                  /\ doc.images # <<>>
                  /\ \A i \in 1..Len(doc.images) :
                        doc.images[i].content =
                            IF doc.images[i].slot = "original" THEN Mri(img)
                            ELSE OverlayOf(img)
        /\ sess[s].pc = "idle" /\ sess[s].clicked /\ sess[s].uploaded_file = NoUpload =>
              /\ "no_upload_error" \in sess[s].msgs
              /\ sess[s].pdf_buffer = NoDoc /\ ~sess[s].download
              /\ sess[s].calls.report = 0

\* C24 witness: Generate Report pressed after the upload was removed, the overlay file of an
\* earlier report still on the disk, ends with the no-upload error
C24_Witness ==
    /\ sess["s1"].pc = "idle" /\ sess["s1"].clicked
    /\ sess["s1"].uploaded_file = NoUpload
    /\ "no_upload_error" \in sess["s1"].msgs
    /\ fs[TEMP_OVERLAY] # NoFile
    /\ sess["s1"].pdf_buffer = NoDoc

====
